---- MODULE Spec2Model ----
(***************************************************************************)
(* Model of calorie_tracker_app.py: a Streamlit script that is re-run from *)
(* top to bottom on every user interaction.  The persistent state is the   *)
(* cached reference table food_df, the date widget and the three lists in  *)
(* st.session_state; everything else is recomputed and re-rendered by each *)
(* run.  One action = one complete script run.                             *)
(*                                                                         *)
(* Numbers: Python floats are modelled as exact rationals [n, d] extended  *)
(* with the IEEE specials the script can produce: d = 0 stands for +inf    *)
(* (n = 1), -inf (n = -1) and NaN (n = 0).  All inputs explored are binary *)
(* fractions, for which float arithmetic and exact arithmetic agree.       *)
(***************************************************************************)
EXTENDS Integers, Sequences, FiniteSets, TLC

VARIABLES food_df, selected_date, food_log, supplement_log, weight_log,
          event, outcome, messages, food_view, weight_view, supp_view

vars == <<food_df, selected_date, food_log, supplement_log, weight_log,
          event, outcome, messages, food_view, weight_view, supp_view>>

logs == <<food_log, supplement_log, weight_log>>

(***************************************************************************)
(* Bounds and input sets                                                   *)
(***************************************************************************)
\* total number of entries the three logs may hold together
MaxEntries == 3

\* calendar dates the date picker is moved between (day numbers)
Dates == {1, 2}
\* quantities typed into the food form (grams, >= min_value 1.0)
Quantities == {100, 150}
\* weights typed into the weight form (kg, within 20.0 .. 300.0): 68.5, 70.25
Weights == {<<137, 2>>, <<281, 4>>}
\* texts typed into the supplement form
SupplementNames == {"Creatine", "Fish Oil"}
Doses == {"5g scoop"}
\* options of the radio / select boxes actually clicked in the runs explored
MealInputs == {"Lunch"}
TimeInputs == {"Morning"}

(***************************************************************************)
(* Floats as extended rationals                                            *)
(***************************************************************************)
Abs(x) == IF x < 0 THEN -x ELSE x

RECURSIVE GCD(_, _)
GCD(a, b) == IF b = 0 THEN a ELSE GCD(b, a % b)

Sign(x) == IF x > 0 THEN 1 ELSE IF x < 0 THEN -1 ELSE 0

\* canonical form of n/d for d >= 0; d = 0 gives inf, -inf or NaN (0/0)
Norm(n, d) ==
    IF d = 0 THEN [n |-> Sign(n), d |-> 0]
    ELSE LET g == GCD(Abs(n), d) IN [n |-> n \div g, d |-> d \div g]

Rat(n, d) == IF d < 0 THEN Norm(-n, -d) ELSE Norm(n, d)
Int2Rat(i) == [n |-> i, d |-> 1]
NaN == [n |-> 0, d |-> 0]
Zero == [n |-> 0, d |-> 1]
IsNaN(x) == x.d = 0 /\ x.n = 0
IsFinite(x) == x.d > 0

\* a * b (inf * 0 = NaN, NaN * x = NaN)
Mul(a, b) == Norm(a.n * b.n, a.d * b.d)

\* a / b as numpy computes it: x / 0 = +-inf, 0 / 0 = NaN, no exception
Div(a, b) == Rat(a.n * b.d, a.d * b.n)

\* a + b (inf + -inf = NaN)
Add(a, b) ==
    IF IsNaN(a) \/ IsNaN(b) THEN NaN
    ELSE IF a.d = 0 /\ b.d = 0 THEN (IF a.n = b.n THEN a ELSE NaN)
    ELSE IF a.d = 0 THEN a
    ELSE IF b.d = 0 THEN b
    ELSE Norm(a.n * b.d + b.n * a.d, a.d * b.d)

Sub(a, b) == Add(a, [n |-> -b.n, d |-> b.d])

\* a > b (every comparison with NaN is false)
Gt(a, b) ==
    IF IsNaN(a) \/ IsNaN(b) THEN FALSE
    ELSE IF a.d = 0 /\ b.d = 0 THEN a.n > b.n
    ELSE IF a.d = 0 THEN a.n > 0
    ELSE IF b.d = 0 THEN b.n < 0
    ELSE a.n * b.d > b.n * a.d

\* 10^k
RECURSIVE Pow10(_)
Pow10(k) == IF k = 0 THEN 1 ELSE 10 * Pow10(k - 1)

\* nearest integer to n/d (d > 0), ties to even
RoundHalfEven(n, d) ==
    LET q == n \div d
        r == n % d
    IN  IF 2 * r < d THEN q
        ELSE IF 2 * r > d THEN q + 1
        ELSE IF q % 2 = 0 THEN q ELSE q + 1

\* f"{x:.<decimals>f}": the value the formatted text denotes.  Python rounds
\* the exact value of the float half-to-even; "inf" and "nan" print as such.
FormatFixed(x, decimals) ==
    IF x.d = 0 THEN x
    ELSE Rat(RoundHalfEven(x.n * Pow10(decimals), x.d), Pow10(decimals))

(***************************************************************************)
(* The reference table (cleaned_food_data.csv as read by pandas)           *)
(***************************************************************************)
\* a cell of the key column that is empty in the file
NaNKey == "<NaN>"
\* the Python value None (the form offers no ingredient)
NoSelection == "<None>"

\* cells of the numeric columns: a number, a string that spells a number,
\* any other string, or an empty cell
NumCell(n, d) == [kind |-> "num", v |-> Rat(n, d)]
NumTextCell(n, d) == [kind |-> "numtext", v |-> Rat(n, d)]
TextCell == [kind |-> "text", v |-> NaN]
MissingCell == [kind |-> "missing", v |-> NaN]

Row(name, p, c, f, cal, portion) ==
    [Ingredient |-> name, Protein_per_g |-> p, Carbs_per_g |-> c,
     Fats_per_g |-> f, Calories |-> cal, Intake_g |-> portion]

\* a table with usable, unusable, duplicated and key-less rows
FullTable ==
    [hasIngredientColumn |-> TRUE,
     rows |-> << Row("Chicken", NumTextCell(1, 1), NumCell(1, 1), NumCell(1, 2),
                     NumCell(1001, 1), NumCell(100, 1)),
                 Row("Mystery Bar", NumTextCell(1, 4), NumCell(0, 1), NumCell(1, 8),
                     NumCell(120, 1), NumCell(0, 1)),
                 Row("Rice", TextCell, NumCell(1, 4), NumCell(0, 1),
                     NumCell(130, 1), NumCell(100, 1)),
                 Row("Oats", NumTextCell(1, 8), NumCell(1, 2), NumCell(1, 16),
                     MissingCell, NumCell(100, 1)),
                 Row("Chicken", NumTextCell(1, 4), NumCell(0, 1), NumCell(1, 8),
                     NumCell(500, 1), NumCell(100, 1)),
                 Row(NaNKey, NumTextCell(1, 1), NumCell(1, 1), NumCell(1, 1),
                     NumCell(100, 1), NumCell(100, 1)) >>]

\* a table whose key column holds no value
AllNullTable ==
    [hasIngredientColumn |-> TRUE,
     rows |-> << Row(NaNKey, NumCell(1, 1), NumCell(1, 1), NumCell(1, 1),
                     NumCell(100, 1), NumCell(100, 1)) >>]

\* a table without the key column
NoColumnTable ==
    [hasIngredientColumn |-> FALSE,
     rows |-> << Row(NaNKey, NumCell(1, 1), NumCell(1, 1), NumCell(1, 1),
                     NumCell(100, 1), NumCell(100, 1)) >>]

Tables == {FullTable, AllNullTable, NoColumnTable}

\* pd.to_numeric(cell, errors="coerce")
to_numeric(cell) ==
    IF cell.kind \in {"num", "numtext"} THEN cell.v ELSE NaN

\* pd.isnull(x)
isnull(x) == IsNaN(x)

\* food_df["Ingredient"].dropna().unique() if the column exists, else []
ingredient_list(df) ==
    IF df.hasIngredientColumn
    THEN {df.rows[i].Ingredient : i \in DOMAIN df.rows} \ {NaNKey}
    ELSE {}

\* what the select box can return; None when the form offers nothing
IngredientChoices(df) ==
    IF ingredient_list(df) = {} THEN {NoSelection} ELSE ingredient_list(df)

\* the positions selected by food_df["Ingredient"] == ingredient
\* (an empty cell and None compare unequal to everything)
MatchingRows(df, ingredient) ==
    {i \in DOMAIN df.rows :
        /\ ingredient # NoSelection
        /\ df.rows[i].Ingredient # NaNKey
        /\ df.rows[i].Ingredient = ingredient}

\* food_df[...].iloc[0] raises KeyError without the column and IndexError
\* when no row matches
LookupRaises(df, ingredient) ==
    \/ ~df.hasIngredientColumn
    \/ MatchingRows(df, ingredient) = {}

Min(S) == CHOOSE x \in S : \A y \in S : x <= y

\* food_df[food_df["Ingredient"] == ingredient].iloc[0]
LookupRow(df, ingredient) == df.rows[Min(MatchingRows(df, ingredient))]

\* the five coerced values of lines 69-73
Coerced(row) ==
    [protein_per_g |-> to_numeric(row.Protein_per_g),
     carbs_per_g |-> to_numeric(row.Carbs_per_g),
     fats_per_g |-> to_numeric(row.Fats_per_g),
     calories_per_portion |-> to_numeric(row.Calories),
     intake_portion |-> to_numeric(row.Intake_g)]

\* faulty variant: the Calories value is left out of the null check
AnyNull_CaloriesUnchecked(c) ==
    \/ isnull(c.protein_per_g)
    \/ isnull(c.carbs_per_g)
    \/ isnull(c.fats_per_g)
    \/ isnull(c.intake_portion)

\* pd.isnull([...]).any()
AnyNull(c) ==
    \/ isnull(c.protein_per_g)
    \/ isnull(c.carbs_per_g)
    \/ isnull(c.fats_per_g)
    \/ isnull(c.calories_per_portion)
    \/ isnull(c.intake_portion)

\* faulty variant: Calories taken per gram, the reference portion ignored
FoodEntry_PortionIgnored(date, ingredient, intake, meal_type, c) ==
    [Date |-> date,
     Ingredient |-> ingredient,
     Qty |-> intake,
     Meal |-> meal_type,
     Protein |-> Mul(c.protein_per_g, intake),
     Carbs |-> Mul(c.carbs_per_g, intake),
     Fats |-> Mul(c.fats_per_g, intake),
     Calories |-> Mul(c.calories_per_portion, intake)]

\* the dictionary appended to food_log (lines 79-93)
FoodEntry(date, ingredient, intake, meal_type, c) ==
    [Date |-> date,
     Ingredient |-> ingredient,
     Qty |-> intake,
     Meal |-> meal_type,
     Protein |-> Mul(c.protein_per_g, intake),
     Carbs |-> Mul(c.carbs_per_g, intake),
     Fats |-> Mul(c.fats_per_g, intake),
     Calories |-> Mul(c.calories_per_portion, Div(intake, c.intake_portion))]

(***************************************************************************)
(* The views, recomputed by every run from the logs and the selected date  *)
(***************************************************************************)
Macros == {"Calories", "Protein", "Carbs", "Fats"}

macro_targets ==
    [Calories |-> Int2Rat(2000), Protein |-> Int2Rat(150),
     Carbs |-> Int2Rat(200), Fats |-> Int2Rat(70)]

\* digits after the point in the metric of each macro (lines 103-106)
MetricDecimals ==
    [Calories |-> 0, Protein |-> 1, Carbs |-> 1, Fats |-> 1]

\* faulty variant: the log is not filtered by date
RowsOfDate_Unfiltered(log, date) == log

\* log_df[log_df['Date'] == selected_date]
RowsOfDate(log, date) == SelectSeq(log, LAMBDA e : e.Date = date)

\* Series.sum() of one column: NaN cells are skipped, an empty column sums to 0
RECURSIVE ColumnSum(_, _)
ColumnSum(rows, column) ==
    IF rows = <<>> THEN Zero
    ELSE LET x == Head(rows)[column]
             rest == ColumnSum(Tail(rows), column)
         IN  IF IsNaN(x) THEN rest ELSE Add(x, rest)

\* daily_log.sum(numeric_only=True), restricted to the four macros
DailyTotals(daily_log) == [m \in Macros |-> ColumnSum(daily_log, m)]

\* the texts of the four st.metric calls
Metrics(daily) == [m \in Macros |-> FormatFixed(daily[m], MetricDecimals[m])]

\* faulty variant: a total equal to the target already raises the warning
Alerts_AtLeast(daily) ==
    {m \in Macros : Gt(daily[m], macro_targets[m]) \/ daily[m] = macro_targets[m]}

\* the macros for which line 110 raises a warning
Alerts(daily) == {m \in Macros : Gt(daily[m], macro_targets[m])}

NoTotals == [m \in Macros |-> Zero]

\* lines 95-113; nothing is computed or shown for an empty log
FoodView(log, date) ==
    IF log = <<>>
    THEN [shown |-> FALSE, daily_log |-> <<>>, daily |-> NoTotals,
          metrics |-> NoTotals, alerts |-> {}]
    ELSE LET daily_log == RowsOfDate(log, date)
             daily == DailyTotals(daily_log)
         IN  [shown |-> TRUE, daily_log |-> daily_log, daily |-> daily,
              metrics |-> Metrics(daily), alerts |-> Alerts(daily)]

FoodViewHidden == FoodView(<<>>, 0)

\* faulty variant: the rows are left in insertion order
SortedOrders_Unsorted(log) == {[i \in 1 .. Len(log) |-> i]}

\* the orders weight_df.sort_values("Date") may produce: ascending dates; the
\* default sort kind is not stable, so rows of one date come in any order
SortedOrders(log) ==
    {p \in [1 .. Len(log) -> 1 .. Len(log)] :
        /\ \A i, j \in 1 .. Len(log) : i # j => p[i] # p[j]
        /\ \A i, j \in 1 .. Len(log) : i < j => log[p[i]].Date <= log[p[j]].Date}

\* lines 145-148 for one sorted order
WeightSummary(log, p) ==
    LET first == log[p[1]].Weight
        last == log[p[Len(log)]].Weight
        change == Sub(last, first)
    IN  [shown |-> TRUE, initial |-> first, latest |-> last, change |-> change,
         initial_text |-> FormatFixed(first, 1),
         latest_text |-> FormatFixed(last, 1),
         change_text |-> FormatFixed(change, 1)]

WeightViewHidden ==
    [shown |-> FALSE, initial |-> Zero, latest |-> Zero, change |-> Zero,
     initial_text |-> Zero, latest_text |-> Zero, change_text |-> Zero]

\* lines 138-148; nothing is shown for an empty log
WeightViews(log) ==
    IF log = <<>> THEN {WeightViewHidden}
    ELSE {WeightSummary(log, p) : p \in SortedOrders(log)}

\* supp_df.groupby("Supplement").size()
Frequency(log) ==
    LET names == {log[i].Supplement : i \in DOMAIN log}
    IN  [s \in names |-> Cardinality({i \in DOMAIN log : log[i].Supplement = s})]

SuppViewHidden == [shown |-> FALSE, freq |-> <<>>, today |-> "none", count |-> 0]

\* faulty variant: the frequencies are counted over today's rows only
SuppView_TodayOnly(log, date) ==
    IF log = <<>> THEN SuppViewHidden
    ELSE LET today_supps == SelectSeq(log, LAMBDA e : e.Date = date)
         IN  [shown |-> TRUE,
              freq |-> Frequency(today_supps),
              today |-> IF today_supps = <<>> THEN "warning" ELSE "success",
              count |-> Len(today_supps)]

\* lines 167-181; nothing is shown for an empty log
SuppView(log, date) ==
    IF log = <<>> THEN SuppViewHidden
    ELSE LET today_supps == SelectSeq(log, LAMBDA e : e.Date = date)
         IN  [shown |-> TRUE,
              freq |-> Frequency(log),
              today |-> IF today_supps = <<>> THEN "warning" ELSE "success",
              count |-> Len(today_supps)]

(***************************************************************************)
(* One script run                                                          *)
(***************************************************************************)
\* the warning of line 59, shown by every run whose form offers no ingredient
FormMessages(df) ==
    IF ingredient_list(df) = {} THEN {"no_ingredients"} ELSE {}

\* faulty variant: the entry is inserted at the front of the list
append_front(log, entry) == <<entry>> \o log

\* list.append of lines 84, 133 and 160
append(log, entry) == Append(log, entry)

Entries == Len(food_log) + Len(supplement_log) + Len(weight_log)

\* the run reaches the end of the script: every view is rendered
Render(fl, wl, sl, date) ==
    /\ food_view' = FoodView(fl, date)
    /\ weight_view' \in WeightViews(wl)
    /\ supp_view' = SuppView(sl, date)
    /\ messages' = FormMessages(food_df)
    /\ outcome' = "ok"

\* the run ends inside the food form: by st.stop() ("stopped") or by an
\* uncaught exception ("exception"); nothing below the form is rendered
Halt(how, msgs) ==
    /\ food_view' = FoodViewHidden
    /\ weight_view' = WeightViewHidden
    /\ supp_view' = SuppViewHidden
    /\ messages' = FormMessages(food_df) \cup msgs
    /\ outcome' = how

Init ==
    /\ food_df \in Tables
    /\ selected_date \in Dates
    /\ food_log = <<>>
    /\ supplement_log = <<>>
    /\ weight_log = <<>>
    /\ event = [kind |-> "start", ingredient |-> NoSelection]
    /\ outcome = "ok"
    /\ messages = FormMessages(food_df)
    /\ food_view = FoodView(<<>>, selected_date)
    /\ weight_view = WeightViewHidden
    /\ supp_view = SuppView(<<>>, selected_date)

\* "Add to Log" of the food form, line 68 raises
SubmitFoodRaises ==
    \E ingredient \in IngredientChoices(food_df) :
        /\ LookupRaises(food_df, ingredient)
        /\ event' = [kind |-> "food", ingredient |-> ingredient]
        /\ Halt("exception", {})
        /\ UNCHANGED <<food_df, selected_date, food_log, supplement_log, weight_log>>

\* "Add to Log" of the food form, lines 75-77 stop the run
SubmitFoodInvalid ==
    \E ingredient \in IngredientChoices(food_df) :
        /\ ~LookupRaises(food_df, ingredient)
        /\ AnyNull(Coerced(LookupRow(food_df, ingredient)))
        /\ event' = [kind |-> "food", ingredient |-> ingredient]
        /\ Halt("stopped", {"invalid_nutrition"})
        /\ UNCHANGED <<food_df, selected_date, food_log, supplement_log, weight_log>>

\* "Add to Log" of the food form, lines 79-93 append the entry
SubmitFoodAppend ==
    \E ingredient \in IngredientChoices(food_df), intake \in Quantities,
       meal_type \in MealInputs :
        /\ Entries < MaxEntries
        /\ ~LookupRaises(food_df, ingredient)
        /\ LET c == Coerced(LookupRow(food_df, ingredient))
           IN  /\ ~AnyNull(c)
               /\ food_log' = append(food_log,
                       FoodEntry(selected_date, ingredient, Int2Rat(intake), meal_type, c))
        /\ event' = [kind |-> "food", ingredient |-> ingredient]
        /\ Render(food_log', weight_log, supplement_log, selected_date)
        /\ UNCHANGED <<food_df, selected_date, supplement_log, weight_log>>

\* faulty variant: logging a weight re-initialises the supplement list
SubmitWeight_ResetsSupplements ==
    \E weight \in Weights :
        /\ Entries < MaxEntries
        /\ weight_log' = append(weight_log,
               [Date |-> selected_date, Weight |-> Rat(weight[1], weight[2])])
        /\ supplement_log' = <<>>
        /\ event' = [kind |-> "weight", ingredient |-> NoSelection]
        /\ Render(food_log, weight_log', supplement_log', selected_date)
        /\ UNCHANGED <<food_df, selected_date, food_log>>

\* "Log Weight", lines 132-136
SubmitWeight ==
    \E weight \in Weights :
        /\ Entries < MaxEntries
        /\ weight_log' = append(weight_log,
               [Date |-> selected_date, Weight |-> Rat(weight[1], weight[2])])
        /\ event' = [kind |-> "weight", ingredient |-> NoSelection]
        /\ Render(food_log, weight_log', supplement_log, selected_date)
        /\ UNCHANGED <<food_df, selected_date, food_log, supplement_log>>

\* "Add to Log" of the supplement form, lines 159-165
SubmitSupplement ==
    \E supplement \in SupplementNames, dose \in Doses, time \in TimeInputs :
        /\ Entries < MaxEntries
        /\ supplement_log' = append(supplement_log,
               [Date |-> selected_date, Supplement |-> supplement,
                Dose |-> dose, Time |-> time])
        /\ event' = [kind |-> "supplement", ingredient |-> NoSelection]
        /\ Render(food_log, weight_log, supplement_log', selected_date)
        /\ UNCHANGED <<food_df, selected_date, food_log, weight_log>>

\* the date picker of line 51 is moved: a run without a submission
ChangeDate ==
    \E date \in Dates \ {selected_date} :
        /\ selected_date' = date
        /\ event' = [kind |-> "date", ingredient |-> NoSelection]
        /\ Render(food_log, weight_log, supplement_log, date)
        /\ UNCHANGED <<food_df, food_log, supplement_log, weight_log>>

\* any other interaction that re-runs the script without a submission
Rerun ==
    /\ event' = [kind |-> "rerun", ingredient |-> NoSelection]
    /\ Render(food_log, weight_log, supplement_log, selected_date)
    /\ UNCHANGED <<food_df, selected_date, food_log, supplement_log, weight_log>>

Next ==
    \/ SubmitFoodRaises
    \/ SubmitFoodInvalid
    \/ SubmitFoodAppend
    \/ SubmitWeight
    \/ SubmitSupplement
    \/ ChangeDate
    \/ Rerun

Spec == Init /\ [][Next]_vars

(***************************************************************************)
(* Properties                                                              *)
(***************************************************************************)
IsPrefix(s, t) == Len(s) <= Len(t) /\ SubSeq(t, 1, Len(s)) = s

IsSubmission(kind) == kind \in {"food", "weight", "supplement"}

\* C1: every step keeps the old contents of each of the three logs as a
\* prefix of the new contents, and adds at most one entry in all.
C1_AppendOnly ==
    [][ /\ IsPrefix(food_log, food_log')
        /\ IsPrefix(supplement_log, supplement_log')
        /\ IsPrefix(weight_log, weight_log')
        /\ Len(food_log') + Len(supplement_log') + Len(weight_log') <= Entries + 1
        /\ ~IsSubmission(event'.kind) => logs' = logs ]_vars

C1_Witness ==
    /\ Len(food_log) >= 2
    /\ food_log[1] # food_log[2]
    /\ weight_log # <<>>
    /\ event.kind = "food"

\* the reference row of a logged ingredient: the first row carrying its name
RefValue(ingredient, column) ==
    LET i == CHOOSE k \in DOMAIN food_df.rows :
                 /\ food_df.rows[k].Ingredient = ingredient
                 /\ \A j \in 1 .. k - 1 : food_df.rows[j].Ingredient # ingredient
    IN  food_df.rows[i][column].v

\* x = coefficient * qty, stated without the model's arithmetic
IsProduct(x, coefficient, qty) ==
    /\ x.d > 0
    /\ x.n * coefficient.d * qty.d = coefficient.n * qty.n * x.d

\* x = calories * qty / portion; with a portion of zero the float quotient
\* is the infinity of the sign of calories * qty
IsCalories(x, calories, qty, portion) ==
    IF portion.n = 0
    THEN x.d = 0 /\ x.n = Sign(calories.n * qty.n)
    ELSE /\ x.d > 0
         /\ x.n * portion.n * calories.d * qty.d
              = calories.n * qty.n * portion.d * x.d

WellDerived(e) ==
    /\ IsProduct(e.Protein, RefValue(e.Ingredient, "Protein_per_g"), e.Qty)
    /\ IsProduct(e.Carbs, RefValue(e.Ingredient, "Carbs_per_g"), e.Qty)
    /\ IsProduct(e.Fats, RefValue(e.Ingredient, "Fats_per_g"), e.Qty)
    /\ IsCalories(e.Calories, RefValue(e.Ingredient, "Calories"), e.Qty,
                  RefValue(e.Ingredient, "Intake_g"))

\* C2: every entry of food_log carries Protein, Carbs, Fats = coefficient *
\* Qty and Calories = Calories * Qty / Intake_g for the reference row of its
\* ingredient, and no later step changes an entry.
C2_DerivedFields ==
    /\ [](\A i \in DOMAIN food_log : WellDerived(food_log[i]))
    /\ [][\A i \in DOMAIN food_log :
             i \in DOMAIN food_log' /\ food_log'[i] = food_log[i]]_vars

C2_Witness ==
    /\ Len(food_log) >= 2
    /\ food_log[1].Ingredient = "Chicken"
    /\ food_log[1].Qty = Int2Rat(150)
    /\ food_log[1].Calories = Rat(3003, 2)
    /\ food_log[1].Fats = Int2Rat(75)
    /\ event.kind \in {"date", "weight"}

\* C3: no entry of a zero reference portion, and none with an infinite or
\* undefined Calories value, is ever in food_log.
C3_ZeroPortionRejected ==
    \A i \in DOMAIN food_log :
        /\ RefValue(food_log[i].Ingredient, "Intake_g").n # 0
        /\ IsFinite(food_log[i].Calories)

NumericColumns ==
    {"Protein_per_g", "Carbs_per_g", "Fats_per_g", "Calories", "Intake_g"}

\* the first row of the ingredient has a non-numeric or missing value
HasBadValue(ingredient) ==
    /\ \E k \in DOMAIN food_df.rows : food_df.rows[k].Ingredient = ingredient
    /\ LET i == CHOOSE k \in DOMAIN food_df.rows :
                    /\ food_df.rows[k].Ingredient = ingredient
                    /\ \A j \in 1 .. k - 1 : food_df.rows[j].Ingredient # ingredient
       IN  \E column \in NumericColumns :
               food_df.rows[i][column].kind \in {"text", "missing"}

\* C4: a food submission for an ingredient with a non-numeric or missing
\* reference value is stopped with the warning and changes none of the logs.
C4_InvalidBlocked ==
    [][(event'.kind = "food" /\ HasBadValue(event'.ingredient)) =>
          /\ logs' = logs
          /\ outcome' = "stopped"
          /\ "invalid_nutrition" \in messages']_vars

C4_Witness ==
    /\ event.kind = "food"
    /\ event.ingredient = "Oats"
    /\ outcome = "stopped"
    /\ food_log # <<>>
    /\ supplement_log # <<>>

\* C5: when the table offers no ingredient the message is shown, and a food
\* submission ends without an error and appends nothing.
C5_NoIngredientNoError ==
    ingredient_list(food_df) = {} =>
        /\ "no_ingredients" \in messages
        /\ event.kind = "food" => (outcome # "exception" /\ food_log = <<>>)

\* the positions of the entries of a log that carry a date
OnDate(log, date) == {i \in DOMAIN log : log[i].Date = date}

\* the sum of one field over a set of positions of food_log
RECURSIVE FieldSum(_, _)
FieldSum(positions, field) ==
    IF positions = {} THEN Zero
    ELSE LET i == CHOOSE k \in positions : TRUE
         IN  Add(food_log[i][field], FieldSum(positions \ {i}, field))

DayTotal(m) == FieldSum(OnDate(food_log, selected_date), m)

\* shown is total rounded to the given number of decimals, ties to even
IsRounded(shown, total, decimals) ==
    IF total.d = 0 THEN shown = total
    ELSE LET scaled == shown.n * Pow10(decimals)
             units == scaled \div shown.d
             diff == Sub(shown, total)
         IN  /\ shown.d > 0
             /\ scaled % shown.d = 0
             /\ 2 * Abs(diff.n) * Pow10(decimals) <= diff.d
             /\ 2 * Abs(diff.n) * Pow10(decimals) = diff.d => units % 2 = 0

\* C6 as stated: after every complete run the four totals are shown and
\* equal the sums over the entries of the selected date, zero when none
\* matches, the empty log included.
C6_TotalsAlwaysShown ==
    outcome = "ok" =>
        /\ food_view.shown
        /\ \A m \in Macros : food_view.daily[m] = DayTotal(m)

\* C6 amended: after a complete run with a non-empty food_log the totals are
\* the sums over exactly the entries of the selected date (zero when none
\* matches), each printed with 0 decimals (Calories) or 1 decimal (Protein,
\* Carbs, Fats); with an empty food_log no totals are computed or shown;
\* neither case raises an error.
C6_DailyTotals ==
    outcome = "ok" =>
        /\ food_view.shown <=> food_log # <<>>
        /\ food_view.shown =>
              \A m \in Macros :
                  /\ food_view.daily[m] = DayTotal(m)
                  /\ OnDate(food_log, selected_date) = {} => food_view.daily[m] = Zero
                  /\ IsRounded(food_view.metrics[m], DayTotal(m),
                               IF m = "Calories" THEN 0 ELSE 1)

C6_Witness ==
    /\ outcome = "ok"
    /\ food_view.shown
    /\ \E i, j \in DOMAIN food_log : food_log[i].Date # food_log[j].Date
    /\ food_view.daily["Calories"] = Rat(3003, 2)
    /\ food_view.metrics["Calories"] = Int2Rat(1502)

\* x > t for an integer t
Exceeds(x, t) == IF x.d = 0 THEN x.n > 0 ELSE x.n > t * x.d

Target(m) ==
    CASE m = "Calories" -> 2000
      [] m = "Protein" -> 150
      [] m = "Carbs" -> 200
      [] m = "Fats" -> 70

\* C7: after every complete run the warning of a macro is raised exactly when
\* the day's total of that macro is strictly greater than its target.
C7_Alerts ==
    outcome = "ok" =>
        \A m \in Macros : m \in food_view.alerts <=> Exceeds(DayTotal(m), Target(m))

C7_Witness ==
    /\ outcome = "ok"
    /\ food_view.shown
    /\ DayTotal("Protein") = Int2Rat(150)
    /\ food_view.alerts = {"Fats"}

MinDate(log) == CHOOSE d \in {log[i].Date : i \in DOMAIN log} :
                    \A i \in DOMAIN log : d <= log[i].Date
MaxDate(log) == CHOOSE d \in {log[i].Date : i \in DOMAIN log} :
                    \A i \in DOMAIN log : d >= log[i].Date

\* C8: after every complete run with a non-empty weight_log the summary takes
\* the weight of an entry of the earliest date as Initial, the weight of an
\* entry of the latest date as Latest and Latest - Initial as Change, and
\* prints each with one decimal; with an empty weight_log no summary is shown.
C8_WeightSummary ==
    outcome = "ok" =>
        /\ weight_view.shown <=> weight_log # <<>>
        /\ weight_view.shown =>
              /\ \E i \in OnDate(weight_log, MinDate(weight_log)) :
                     weight_view.initial = weight_log[i].Weight
              /\ \E j \in OnDate(weight_log, MaxDate(weight_log)) :
                     weight_view.latest = weight_log[j].Weight
              /\ IsFinite(weight_view.change)
              /\ weight_view.change.n * weight_view.latest.d * weight_view.initial.d
                   = weight_view.change.d *
                       (weight_view.latest.n * weight_view.initial.d
                          - weight_view.initial.n * weight_view.latest.d)
              /\ IsRounded(weight_view.initial_text, weight_view.initial, 1)
              /\ IsRounded(weight_view.latest_text, weight_view.latest, 1)
              /\ IsRounded(weight_view.change_text, weight_view.change, 1)

C8_Witness ==
    /\ outcome = "ok"
    /\ Len(weight_log) = 3
    /\ weight_log[1].Date > weight_log[2].Date
    /\ weight_log[1].Weight # weight_log[2].Weight
    /\ weight_view.initial = weight_log[2].Weight
    /\ weight_view.initial = Rat(281, 4)
    /\ weight_view.latest = Rat(137, 2)
    /\ weight_view.change = Rat(-7, 4)
    /\ weight_view.change_text = Rat(-18, 10)

RECURSIVE CountSum(_, _)
CountSum(freq, names) ==
    IF names = {} THEN 0
    ELSE LET s == CHOOSE x \in names : TRUE
         IN  freq[s] + CountSum(freq, names \ {s})

\* C9: after every complete run with a non-empty supplement_log the frequency
\* table maps each name of the log to the number of entries of that name on
\* any date, the counts sum to the length of the log, and the logged-today
\* indicator is positive exactly when an entry carries the selected date.
C9_SupplementView ==
    outcome = "ok" =>
        /\ supp_view.shown <=> supplement_log # <<>>
        /\ supp_view.today = "success" <=> OnDate(supplement_log, selected_date) # {}
        /\ supp_view.shown =>
              /\ DOMAIN supp_view.freq =
                     {supplement_log[i].Supplement : i \in DOMAIN supplement_log}
              /\ \A s \in DOMAIN supp_view.freq :
                     supp_view.freq[s] = Cardinality(
                         {i \in DOMAIN supplement_log : supplement_log[i].Supplement = s})
              /\ CountSum(supp_view.freq, DOMAIN supp_view.freq) = Len(supplement_log)
              /\ supp_view.count = Cardinality(OnDate(supplement_log, selected_date))

C9_Witness ==
    /\ outcome = "ok"
    /\ Len(supplement_log) = 3
    /\ DOMAIN supp_view.freq = {"Creatine", "Fish Oil"}
    /\ supp_view.freq["Creatine"] = 2
    /\ supp_view.freq["Fish Oil"] = 1
    /\ supp_view.today = "success"
    /\ supp_view.count = 1

\* C10: a submission changes no log but its own, a run without a submission
\* changes no log, and re-running on the same logs and date shows the same
\* food totals and supplement view.
C10_Frame ==
    [][ /\ event'.kind = "food" => UNCHANGED <<supplement_log, weight_log>>
        /\ event'.kind = "supplement" => UNCHANGED <<food_log, weight_log>>
        /\ event'.kind = "weight" => UNCHANGED <<food_log, supplement_log>>
        /\ event'.kind \in {"date", "rerun"} => UNCHANGED logs
        /\ (event'.kind = "rerun" /\ outcome = "ok") =>
               UNCHANGED <<food_view, supp_view>> ]_vars

C10_Witness ==
    /\ event.kind = "rerun"
    /\ outcome = "ok"
    /\ food_log # <<>>
    /\ supplement_log # <<>>
    /\ weight_log # <<>>

====
